---- MODULE Spec2Model ----
(***************************************************************************)
(* rslib/src/search/writer.rs: normalize_search, negate_search and         *)
(* concatenate_searches, and the rendering of a parsed search back to      *)
(* text.  A Rust String is a sequence of one-character strings.            *)
(***************************************************************************)
EXTENDS Integers, Sequences, FiniteSets, TLC

VARIABLES fn, input, sep, searches, leaf, pc, out, out2, norm, parsed, kept

vars == <<fn, input, sep, searches, leaf, pc, out, out2, norm, parsed, kept>>

(***************************************************************************)
(* Bounds of the model.                                                    *)
(***************************************************************************)
\* the most fragments an input search text is made of
MaxFrags == 3
\* the most fragments a text handed to negate_search is made of
MaxNegateFrags == 4
\* the most texts handed to concatenate_searches
MaxSearches == 3
\* the most fragments of a field text handed to write_single_field
MaxFieldFrags == 3
\* the most fragments of a field name handed to write_single_field
MaxFieldNameFrags == 2

(***************************************************************************)
(* Characters and str helpers of the standard library                      *)
(***************************************************************************)
QUOTE == "\""
BSLASH == "\\"
COLON == ":"
SPACE == " "
MINUS == "-"
LPAREN == "("
RPAREN == ")"

Digit == <<"0", "1", "2", "3", "4", "5", "6", "7", "8", "9">>

RECURSIVE Flatten(_)
\* concatenation of a sequence of strings
Flatten(ss) == IF ss = <<>> THEN <<>> ELSE Head(ss) \o Flatten(Tail(ss))

\* str::starts_with
starts_with(s, p) == Len(s) >= Len(p) /\ SubSeq(s, 1, Len(p)) = p

RECURSIVE replacen(_, _, _, _)
\* str::replacen(from, to, count): the first count matches of from, left to right
replacen(s, from, to, count) ==
    IF s = <<>> \/ count = 0 THEN s
    ELSE IF starts_with(s, from)
         THEN to \o replacen(SubSeq(s, Len(from) + 1, Len(s)), from, to, count - 1)
         ELSE <<Head(s)>> \o replacen(Tail(s), from, to, count)

\* str::replace(from, to): every match
replace(s, from, to) == replacen(s, from, to, Len(s))

RECURSIVE fmt_nat(_)
\* Display of an unsigned integer
fmt_nat(n) == IF n < 10 THEN <<Digit[n + 1]>> ELSE fmt_nat(n \div 10) \o <<Digit[(n % 10) + 1]>>

\* Display of a signed integer
fmt_int(i) == IF i < 0 THEN <<MINUS>> \o fmt_nat(0 - i) ELSE fmt_nat(i)

\* Display of an f32 held as [whole, tenths]: 2.0 prints as 2, 2.5 as 2.5
fmt_f32(f) == IF f.tenths = 0 THEN fmt_int(f.whole)
              ELSE fmt_int(f.whole) \o <<".">> \o fmt_nat(f.tenths)

(***************************************************************************)
(* Node and SearchNode (search::parser), as the writer matches on them     *)
(***************************************************************************)
And == [type |-> "And"]
Or == [type |-> "Or"]
Not(n) == [type |-> "Not", node |-> n]
Group(ns) == [type |-> "Group", nodes |-> ns]
Search(n) == [type |-> "Search", search |-> n]

WholeCollection == [kind |-> "WholeCollection"]
UnqualifiedText(s) == [kind |-> "UnqualifiedText", s |-> s]
SingleField(field, text, is_re) ==
    [kind |-> "SingleField", field |-> field, text |-> text, is_re |-> is_re]
Ordinal(u) == [kind |-> "Ordinal", u |-> u]
Name(s) == [kind |-> "Name", s |-> s]
CardTemplate(t) == [kind |-> "CardTemplate", t |-> t]
\* the variants that carry one string: Deck, NoteType, Tag, NoteIDs, CardIDs,
\* Regex, NoCombining, WordBoundary
StrNode(kind, s) == [kind |-> kind, s |-> s]
\* the variants that carry one integer: AddedInDays, EditedInDays, DeckID,
\* NoteTypeID, Flag
NumNode(kind, u) == [kind |-> kind, u |-> u]
Rated(days, ease) == [kind |-> "Rated", days |-> days, ease |-> ease]
Duplicates(note_type_id, text) ==
    [kind |-> "Duplicates", note_type_id |-> note_type_id, text |-> text]
State(k) == [kind |-> "State", k |-> k]
Property(operator, kind) == [kind |-> "Property", operator |-> operator, prop |-> kind]

\* Option<u8>
None == [some |-> FALSE, u |-> 0]
Some(u) == [some |-> TRUE, u |-> u]

(***************************************************************************)
(* The writer                                                              *)
(***************************************************************************)
\* Escape and wrap in double quotes.
quote(txt) == <<QUOTE>> \o replace(txt, <<QUOTE>>, <<BSLASH, QUOTE>>) \o <<QUOTE>>

\* write_single_field escaping every colon of a text that starts with re:
write_single_field_replace_all(field, text, is_re) ==
    LET re == IF is_re THEN <<"r", "e", ":">> ELSE <<>>
        text2 == IF ~is_re /\ starts_with(text, <<"r", "e", ":">>)
                 THEN replace(text, <<COLON>>, <<BSLASH, COLON>>)
                 ELSE text
    IN  quote(replace(field, <<COLON>>, <<BSLASH, COLON>>) \o <<COLON>> \o re \o text2)

write_single_field(field, text, is_re) ==
    LET re == IF is_re THEN <<"r", "e", ":">> ELSE <<>>
        text2 == IF ~is_re /\ starts_with(text, <<"r", "e", ":">>)
                 THEN replacen(text, <<COLON>>, <<BSLASH, COLON>>, 1)
                 ELSE text
    IN  quote(replace(field, <<COLON>>, <<BSLASH, COLON>>) \o <<COLON>> \o re \o text2)

write_template(template) ==
    IF template.kind = "Ordinal"
    THEN <<QUOTE, "c", "a", "r", "d", ":">> \o fmt_nat(template.u) \o <<QUOTE>>
    ELSE <<QUOTE, "c", "a", "r", "d", ":">> \o template.s \o <<QUOTE>>

write_rated(days, ease) ==
    IF ease.some
    THEN <<QUOTE, "r", "a", "t", "e", "d", ":">> \o fmt_nat(days) \o <<COLON>>
             \o fmt_nat(ease.u) \o <<QUOTE>>
    ELSE <<QUOTE, "r", "a", "t", "e", "d", ":">> \o fmt_nat(days) \o <<QUOTE>>

StateToken(kind) ==
    CASE kind = "New" -> <<"n", "e", "w">>
      [] kind = "Review" -> <<"r", "e", "v", "i", "e", "w">>
      [] kind = "Learning" -> <<"l", "e", "a", "r", "n">>
      [] kind = "Due" -> <<"d", "u", "e">>
      [] kind = "Buried" -> <<"b", "u", "r", "i", "e", "d">>
      [] kind = "UserBuried" ->
            <<"b", "u", "r", "i", "e", "d", "-", "m", "a", "n", "u", "a", "l", "l", "y">>
      [] kind = "SchedBuried" ->
            <<"b", "u", "r", "i", "e", "d", "-", "s", "i", "b", "l", "i", "n", "g">>
      [] kind = "Suspended" -> <<"s", "u", "s", "p", "e", "n", "d", "e", "d">>

write_state(kind) == <<QUOTE, "i", "s", ":">> \o StateToken(kind) \o <<QUOTE>>

write_property(operator, kind) ==
    LET name == CASE kind.kind = "Due" -> <<"d", "u", "e">>
                  [] kind.kind = "Interval" -> <<"i", "v", "l">>
                  [] kind.kind = "Reps" -> <<"r", "e", "p", "s">>
                  [] kind.kind = "Lapses" -> <<"l", "a", "p", "s", "e", "s">>
                  [] kind.kind = "Ease" -> <<"e", "a", "s", "e">>
        value == CASE kind.kind = "Due" -> fmt_int(kind.v)
                   [] kind.kind = "Ease" -> fmt_f32(kind.v)
                   [] OTHER -> fmt_nat(kind.v)
    IN  <<QUOTE, "p", "r", "o", "p", ":">> \o name \o operator \o value \o <<QUOTE>>

write_search_node(node) ==
    CASE node.kind = "UnqualifiedText" -> quote(replace(node.s, <<COLON>>, <<BSLASH, COLON>>))
      [] node.kind = "SingleField" -> write_single_field(node.field, node.text, node.is_re)
      [] node.kind = "AddedInDays" ->
            <<QUOTE, "a", "d", "d", "e", "d", ":">> \o fmt_nat(node.u) \o <<QUOTE>>
      [] node.kind = "EditedInDays" ->
            <<QUOTE, "e", "d", "i", "t", "e", "d", ":">> \o fmt_nat(node.u) \o <<QUOTE>>
      [] node.kind = "CardTemplate" -> write_template(node.t)
      [] node.kind = "Deck" -> quote(<<"d", "e", "c", "k", ":">> \o node.s)
      [] node.kind = "DeckID" -> <<QUOTE, "d", "i", "d", ":">> \o fmt_int(node.u) \o <<QUOTE>>
      [] node.kind = "NoteTypeID" ->
            <<QUOTE, "m", "i", "d", ":">> \o fmt_int(node.u) \o <<QUOTE>>
      [] node.kind = "NoteType" -> quote(<<"n", "o", "t", "e", ":">> \o node.s)
      [] node.kind = "Rated" -> write_rated(node.days, node.ease)
      [] node.kind = "Tag" -> quote(<<"t", "a", "g", ":">> \o node.s)
      [] node.kind = "Duplicates" ->
            quote(<<"d", "u", "p", "e", "s", ":">> \o fmt_int(node.note_type_id)
                      \o <<",">> \o node.text)
      [] node.kind = "State" -> write_state(node.k)
      [] node.kind = "Flag" -> <<QUOTE, "f", "l", "a", "g", ":">> \o fmt_nat(node.u) \o <<QUOTE>>
      [] node.kind = "NoteIDs" -> <<QUOTE, "n", "i", "d", ":">> \o node.s \o <<QUOTE>>
      [] node.kind = "CardIDs" -> <<QUOTE, "c", "i", "d", ":">> \o node.s \o <<QUOTE>>
      [] node.kind = "Property" -> write_property(node.operator, node.prop)
      [] node.kind = "WholeCollection" -> <<>>
      [] node.kind = "Regex" -> quote(<<"r", "e", ":">> \o node.s)
      [] node.kind = "NoCombining" -> quote(<<"n", "c", ":">> \o node.s)
      [] node.kind = "WordBoundary" -> quote(<<"w", ":">> \o node.s)

RECURSIVE write_node(_)
RECURSIVE write_nodes(_)

write_node(node) ==
    CASE node.type = "And" -> <<" ", "A", "N", "D", " ">>
      [] node.type = "Or" -> <<" ", "O", "R", " ">>
      [] node.type = "Not" -> <<MINUS>> \o write_node(node.node)
      [] node.type = "Group" -> <<LPAREN>> \o write_nodes(node.nodes) \o <<RPAREN>>
      [] node.type = "Search" -> write_search_node(node.search)

write_nodes(nodes) ==
    IF nodes = <<>> THEN <<>> ELSE write_node(Head(nodes)) \o write_nodes(Tail(nodes))

(***************************************************************************)
(* search::parser::parse.  The text syntax is the one the writer emits:    *)
(* terms, bare or in double quotes, with \" and \: as escapes; key:value   *)
(* terms; a leading - for negation; parentheses for groups; the words and  *)
(* or between terms, and an implied and between adjacent terms.  The empty *)
(* text is the whole collection.                                           *)
(***************************************************************************)
\* Result<Vec<Node>>
Ok(nodes) == [ok |-> TRUE, nodes |-> nodes, err |-> "", next |-> 0]
Err(e) == [ok |-> FALSE, nodes |-> <<>>, err |-> e, next |-> 0]

RECURSIVE trim_start(_)
trim_start(s) == IF s # <<>> /\ Head(s) = SPACE THEN trim_start(Tail(s)) ELSE s

RECURSIVE trim_end(_)
trim_end(s) ==
    IF s # <<>> /\ s[Len(s)] = SPACE THEN trim_end(SubSeq(s, 1, Len(s) - 1)) ELSE s

\* str::trim
trim(s) == trim_end(trim_start(s))

RECURSIVE skip_ws(_, _)
\* the first position from i on that holds no space
skip_ws(s, i) == IF i <= Len(s) /\ s[i] = SPACE THEN skip_ws(s, i + 1) ELSE i

RECURSIVE scan_quoted(_, _)
\* the position of the closing quote of a quoted term whose text starts at i; 0 if none
scan_quoted(s, i) ==
    IF i > Len(s) THEN 0
    ELSE IF s[i] = BSLASH THEN scan_quoted(s, i + 2)
    ELSE IF s[i] = QUOTE THEN i
    ELSE scan_quoted(s, i + 1)

RECURSIVE scan_unquoted(_, _)
\* the position after a bare term that starts at i
scan_unquoted(s, i) ==
    IF i > Len(s) THEN Len(s) + 1
    ELSE IF s[i] \in {SPACE, LPAREN, RPAREN, QUOTE} THEN i
    ELSE IF s[i] = BSLASH THEN scan_unquoted(s, i + 2)
    ELSE scan_unquoted(s, i + 1)

RECURSIVE find_colon(_, _)
\* the position of the first colon from i on that no backslash escapes; 0 if none
find_colon(s, i) ==
    IF i > Len(s) THEN 0
    ELSE IF s[i] = BSLASH THEN find_colon(s, i + 2)
    ELSE IF s[i] = COLON THEN i
    ELSE find_colon(s, i + 1)

RECURSIVE unescape(_)
\* \" -> " and \: -> :
unescape(s) ==
    IF s = <<>> THEN <<>>
    ELSE IF Head(s) = BSLASH /\ Len(s) >= 2 /\ s[2] \in {QUOTE, COLON}
         THEN <<s[2]>> \o unescape(SubSeq(s, 3, Len(s)))
         ELSE <<Head(s)>> \o unescape(Tail(s))

is_digits(s) == s # <<>> /\ \A i \in 1..Len(s) : \E d \in 1..10 : Digit[d] = s[i]

RECURSIVE parse_nat(_)
\* str::parse of an unsigned decimal
parse_nat(s) ==
    IF s = <<>> THEN 0
    ELSE 10 * parse_nat(SubSeq(s, 1, Len(s) - 1))
             + ((CHOOSE d \in 1..10 : Digit[d] = s[Len(s)]) - 1)

is_and(raw) == Len(raw) = 3 /\ raw[1] \in {"a", "A"} /\ raw[2] \in {"n", "N"}
                   /\ raw[3] \in {"d", "D"}

is_or(raw) == Len(raw) = 2 /\ raw[1] \in {"o", "O"} /\ raw[2] \in {"r", "R"}

\* the keys whose value is kept as a string
StrKeys ==
    { <<<<"d", "e", "c", "k">>, "Deck">>, <<<<"n", "o", "t", "e">>, "NoteType">>,
      <<<<"t", "a", "g">>, "Tag">>, <<<<"r", "e">>, "Regex">>,
      <<<<"n", "c">>, "NoCombining">>, <<<<"w">>, "WordBoundary">> }

\* the keys whose value is a number
NumKeys ==
    { <<<<"a", "d", "d", "e", "d">>, "AddedInDays">>,
      <<<<"e", "d", "i", "t", "e", "d">>, "EditedInDays">>,
      <<<<"d", "i", "d">>, "DeckID">>, <<<<"m", "i", "d">>, "NoteTypeID">>,
      <<<<"f", "l", "a", "g">>, "Flag">> }

\* the keys whose value is a list of ids
IdKeys == {<<<<"n", "i", "d">>, "NoteIDs">>, <<<<"c", "i", "d">>, "CardIDs">>}

\* digits and commas only
is_id_list(s) ==
    s # <<>> /\ \A i \in 1..Len(s) : s[i] = "," \/ \E d \in 1..10 : Digit[d] = s[i]

\* card:<n> is a template ordinal when n is a u16, a template name otherwise
parse_template(val) ==
    IF is_digits(val) /\ Len(val) <= 5 /\ parse_nat(val) <= 65535
    THEN CardTemplate(Ordinal(parse_nat(val)))
    ELSE CardTemplate(Name(val))

\* the leaf of a term key:rest, with head the key and val the value, both
\* without their escapes
node_for_key(head, rest, val) ==
    IF head = <<"c", "a", "r", "d">> THEN Ok(<<Search(parse_template(val))>>)
    ELSE IF \E k \in StrKeys : k[1] = head
         THEN Ok(<<Search(StrNode((CHOOSE k \in StrKeys : k[1] = head)[2], val))>>)
    ELSE IF \E k \in IdKeys : k[1] = head
         THEN IF is_id_list(val)
              THEN Ok(<<Search(StrNode((CHOOSE k \in IdKeys : k[1] = head)[2], val))>>)
              ELSE Err("invalid id list")
    ELSE IF \E k \in NumKeys : k[1] = head
         THEN IF is_digits(val)
              THEN Ok(<<Search(NumNode((CHOOSE k \in NumKeys : k[1] = head)[2],
                                       parse_nat(val)))>>)
              ELSE Err("invalid number")
    ELSE IF starts_with(rest, <<"r", "e", ":">>)
         THEN Ok(<<Search(SingleField(head, unescape(SubSeq(rest, 4, Len(rest))), TRUE))>>)
         ELSE Ok(<<Search(SingleField(head, val, FALSE))>>)

\* the leaf of a term whose first unescaped colon is at c (0: it has none)
node_at_colon(raw, c) ==
    IF c = 0 THEN Ok(<<Search(UnqualifiedText(unescape(raw)))>>)
    ELSE node_for_key(unescape(SubSeq(raw, 1, c - 1)), SubSeq(raw, c + 1, Len(raw)),
                      unescape(SubSeq(raw, c + 1, Len(raw))))

\* a term's text to its leaf: Ok with the one node, or Err
search_node_for_text(raw) == node_at_colon(raw, find_colon(raw, 1))

\* the quoted term that opens at j and closes at k (0: it never closes)
quoted_term(s, j, k) ==
    IF k = 0 THEN Err("unterminated quote")
    ELSE IF k = j + 1 THEN Err("empty quote")
    ELSE [search_node_for_text(SubSeq(s, j + 1, k - 1)) EXCEPT !.next = k + 1]

\* the bare term raw that ends before k
unquoted_term(raw, k, allow_op) ==
    IF allow_op /\ is_and(raw) THEN [Ok(<<And>>) EXCEPT !.next = k]
    ELSE IF allow_op /\ is_or(raw) THEN [Ok(<<Or>>) EXCEPT !.next = k]
    ELSE [search_node_for_text(raw) EXCEPT !.next = k]

\* one term from position j, which holds no space: Ok with the one node and
\* the position after it
parse_text(s, j, allow_op) ==
    IF s[j] = QUOTE THEN quoted_term(s, j, scan_quoted(s, j + 1))
    ELSE unquoted_term(SubSeq(s, j, scan_unquoted(s, j) - 1), scan_unquoted(s, j), allow_op)

is_op(node) == node.type \in {"And", "Or"}

\* the group whose inside parsed to r
group_of(r) == IF r.ok THEN [Ok(<<Group(r.nodes)>>) EXCEPT !.next = r.next + 1] ELSE r

\* the negation of the node that parsed to r
not_of(r) == IF r.ok THEN [Ok(<<Not(r.nodes[1])>>) EXCEPT !.next = r.next] ELSE r

\* the nodes read so far with the node that parsed to r: an operator only
\* after an operand, an implied And between two operands
push_node(nodes, r) ==
    IF Len(nodes) % 2 = 0
    THEN IF is_op(r.nodes[1]) THEN Err("misplaced operator")
         ELSE [Ok(Append(nodes, r.nodes[1])) EXCEPT !.next = r.next]
    ELSE IF is_op(r.nodes[1]) THEN [Ok(Append(nodes, r.nodes[1])) EXCEPT !.next = r.next]
         ELSE [Ok(nodes \o <<And, r.nodes[1]>>) EXCEPT !.next = r.next]

\* the nodes read when the text or the group ends at j
close_group(s, j, in_group, nodes) ==
    IF in_group /\ j > Len(s) THEN Err("unterminated group")
    ELSE IF ~in_group /\ j <= Len(s) THEN Err("unexpected )")
    ELSE IF nodes = <<>> THEN Err("empty group")
    ELSE IF is_op(nodes[Len(nodes)]) THEN Err("trailing operator")
    ELSE [Ok(nodes) EXCEPT !.next = j]

\* the same, or the error of the node
push_or_fail(nodes, r) == IF r.ok THEN push_node(nodes, r) ELSE r

RECURSIVE parse_node(_, _)
RECURSIVE group_inner(_, _, _, _)
RECURSIVE group_more(_, _, _)
RECURSIVE group_from(_, _, _, _)

\* one node from position j, which holds neither a space nor a closing parenthesis
parse_node(s, j) ==
    IF s[j] = LPAREN THEN group_of(group_inner(s, j + 1, TRUE, <<>>))
    ELSE IF s[j] = MINUS
    THEN IF j + 1 > Len(s) \/ s[j + 1] \in {SPACE, RPAREN} THEN Err("nothing to negate")
         ELSE IF s[j + 1] = LPAREN
              THEN not_of(group_of(group_inner(s, j + 2, TRUE, <<>>)))
              ELSE not_of(parse_text(s, j + 1, FALSE))
    ELSE parse_text(s, j, TRUE)

\* the nodes from position i to the end of the text or of the group
group_inner(s, i, in_group, nodes) == group_from(s, skip_ws(s, i), in_group, nodes)

\* the same from position j, which holds no space
group_from(s, j, in_group, nodes) ==
    IF j > Len(s) \/ s[j] = RPAREN THEN close_group(s, j, in_group, nodes)
    ELSE group_more(s, in_group, push_or_fail(nodes, parse_node(s, j)))

\* the same once the next node is read and pushed, to p
group_more(s, in_group, p) == IF p.ok THEN group_inner(s, p.next, in_group, p.nodes) ELSE p

parse(txt) ==
    LET s == trim(txt)
    IN  IF s = <<>> THEN Ok(<<Search(WholeCollection)>>)
        ELSE [group_inner(s, 1, FALSE, <<>>) EXCEPT !.next = 0]

(***************************************************************************)
(* The three entry points.  A Result<String> is Ok with the text, Err with *)
(* the parser's error, or a panic.                                         *)
(***************************************************************************)
RetOk(str) == [ok |-> TRUE, val |-> str, err |-> "", panicked |-> FALSE]
RetErr(e) == [ok |-> FALSE, val |-> <<>>, err |-> e, panicked |-> FALSE]
Panic == [ok |-> FALSE, val |-> <<>>, err |-> "", panicked |-> TRUE]
NoResult == [ok |-> FALSE, val |-> <<>>, err |-> "none", panicked |-> FALSE]

normalize_search(txt) ==
    LET r == parse(txt)
    IN  IF ~r.ok THEN RetErr(r.err) ELSE RetOk(write_nodes(r.nodes))

\* negate_search without the arm for the whole collection
negate_search_no_collection_arm(txt) ==
    LET r == parse(txt)
        nodes == r.nodes
        node == nodes[1]
    IN  IF ~r.ok THEN RetErr(r.err)
        ELSE IF Len(nodes) = 1
        THEN IF node.type = "Not" THEN RetOk(write_node(node.node))
             ELSE IF node.type \in {"Group", "Search"} THEN RetOk(write_node(Not(node)))
             ELSE Panic
        ELSE RetOk(write_node(Not(Group(nodes))))

\* negate_search negating a compound expression without grouping it
negate_search_ungrouped(txt) ==
    LET r == parse(txt)
        nodes == r.nodes
        node == nodes[1]
    IN  IF ~r.ok THEN RetErr(r.err)
        ELSE IF Len(nodes) = 1
        THEN IF node.type = "Not" THEN RetOk(write_node(node.node))
             ELSE IF node = Search(WholeCollection) THEN RetOk(<<>>)
             ELSE IF node.type \in {"Group", "Search"} THEN RetOk(write_node(Not(node)))
             ELSE Panic
        ELSE RetOk(<<MINUS>> \o write_nodes(nodes))

\* negate_search whose match leaves Group to the unreachable arm
negate_search_no_group_arm(txt) ==
    LET r == parse(txt)
        nodes == r.nodes
        node == nodes[1]
    IN  IF ~r.ok THEN RetErr(r.err)
        ELSE IF Len(nodes) = 1
        THEN IF node.type = "Not" THEN RetOk(write_node(node.node))
             ELSE IF node = Search(WholeCollection) THEN RetOk(<<>>)
             ELSE IF node.type = "Search" THEN RetOk(write_node(Not(node)))
             ELSE Panic
        ELSE RetOk(write_node(Not(Group(nodes))))

negate_search(txt) ==
    LET r == parse(txt)
        nodes == r.nodes
        node == nodes[1]
    IN  IF ~r.ok THEN RetErr(r.err)
        ELSE IF Len(nodes) = 1
        THEN IF node.type = "Not" THEN RetOk(write_node(node.node))
             ELSE IF node = Search(WholeCollection) THEN RetOk(<<>>)
             ELSE IF node.type \in {"Group", "Search"} THEN RetOk(write_node(Not(node)))
             ELSE Panic
        ELSE RetOk(write_node(Not(Group(nodes))))

\* Separator::from_i32 of the generated backend_proto: AND = 0, OR = 1
SeparatorOr == 1
Separator_from_i32(i) ==
    IF i = 0 THEN "And" ELSE IF i = SeparatorOr THEN "Or" ELSE "None"

\* bool_node taking Or for every code that is not And
bool_node_default_or(sp) == <<IF Separator_from_i32(sp) = "And" THEN And ELSE Or>>

bool_node(sp) == <<IF Separator_from_i32(sp) = "Or" THEN Or ELSE And>>

RECURSIVE collect_every_text(_, _)
\* collect that parses every text and keeps the last error
collect_every_text(ss, calls) ==
    IF ss = <<>> THEN [ok |-> TRUE, vs |-> <<>>, err |-> "", calls |-> calls]
    ELSE LET r == parse(Head(ss))
             rest == collect_every_text(Tail(ss), calls + 1)
         IN  IF ~rest.ok THEN rest
             ELSE IF ~r.ok THEN [ok |-> FALSE, vs |-> <<>>, err |-> r.err, calls |-> rest.calls]
             ELSE [rest EXCEPT !.vs = <<r.nodes>> \o rest.vs]

RECURSIVE collect(_, _)
\* .map(parse).collect::<Result<Vec<Vec<Node>>>>(): the parsed texts in order,
\* or the first error; calls counts the texts parse was called on
collect(ss, calls) ==
    IF ss = <<>> THEN [ok |-> TRUE, vs |-> <<>>, err |-> "", calls |-> calls]
    ELSE LET r == parse(Head(ss))
         IN  IF ~r.ok THEN [ok |-> FALSE, vs |-> <<>>, err |-> r.err, calls |-> calls + 1]
             ELSE LET rest == collect(Tail(ss), calls + 1)
                  IN  IF rest.ok THEN [rest EXCEPT !.vs = <<r.nodes>> \o rest.vs] ELSE rest

\* a filter that lets every parsed expression through
filter_pred_keep_all(v) == v # <<>>

\* the closure of .filter(): v[0] != Node::Search(SearchNode::WholeCollection)
filter_pred(v) == v[1] # Search(WholeCollection)

RECURSIVE intersperse_after_each(_, _)
\* intersperse that puts the element after every item, the last too
intersperse_after_each(vs, element) ==
    IF vs = <<>> THEN <<>>
    ELSE <<Head(vs), element>> \o intersperse_after_each(Tail(vs), element)

RECURSIVE intersperse(_, _)
\* Itertools::intersperse
intersperse(vs, element) ==
    IF Len(vs) <= 1 THEN vs ELSE <<Head(vs), element>> \o intersperse(Tail(vs), element)

\* the value of concatenate_searches with, beside it, the texts parsed and
\* the sequences the filter let through
concatenate_searches_run(sp, ss) ==
    LET c == collect(ss, 0)
        filtered == SelectSeq(c.vs, filter_pred)
    IN  IF ~c.ok THEN [ret |-> RetErr(c.err), calls |-> c.calls, kept |-> <<>>]
        ELSE IF \E i \in 1..Len(c.vs) : c.vs[i] = <<>>
        THEN [ret |-> Panic, calls |-> c.calls, kept |-> <<>>]
        ELSE [ret |-> RetOk(write_nodes(Flatten(intersperse(filtered, bool_node(sp))))),
              calls |-> c.calls, kept |-> filtered]

concatenate_searches(sp, ss) == concatenate_searches_run(sp, ss).ret

(***************************************************************************)
(* The inputs                                                              *)
(***************************************************************************)
SeqsUpTo(S, n) == UNION {[1..k -> S] : k \in 0..n}

\* what an input text is made of
Frags ==
    { <<"a">>, <<"1">>, <<COLON>>, <<QUOTE>>, <<BSLASH, QUOTE>>, <<BSLASH, COLON>>,
      <<SPACE>>, <<MINUS>>, <<LPAREN>>, <<RPAREN>>, <<" ", "o", "r", " ">>,
      <<"c", "a", "r", "d", ":">>, <<"r", "e", ":">> }

\* searches as they are typed, one for each key the parser knows
TypedTexts ==
    { <<"d", "e", "c", "k", ":", "a", SPACE, "t", "a", "g", ":", "a">>,
      <<"n", "o", "t", "e", ":", "a">>, <<"n", "c", ":", "a">>, <<"w", ":", "a">>,
      <<"a", "d", "d", "e", "d", ":", "0", "1">>, <<"e", "d", "i", "t", "e", "d", ":", "2">>,
      <<"d", "i", "d", ":", "1", "2">>, <<"m", "i", "d", ":", "3">>,
      <<"f", "l", "a", "g", ":", "1">>, <<"f", "l", "a", "g", ":", "a">>,
      <<"n", "i", "d", ":", "1", ",", "2">>, <<"c", "i", "d", ":", "3">>,
      <<"c", "i", "d", ":", "a">>,
      <<MINUS, LPAREN, "a", SPACE, "A", "N", "D", SPACE, "1", RPAREN, SPACE, "1">> }

Texts == {Flatten(fs) : fs \in SeqsUpTo(Frags, MaxFrags)} \cup TypedTexts

\* what a text handed to negate_search is made of
NegateFrags ==
    { <<"a">>, <<QUOTE>>, <<BSLASH, QUOTE>>, <<SPACE>>, <<MINUS>>, <<LPAREN>>, <<RPAREN>>,
      <<" ", "o", "r", " ">>, <<"c", "a", "r", "d", ":">> }

NegateTexts == {Flatten(fs) : fs \in SeqsUpTo(NegateFrags, MaxNegateFrags)}

\* the texts handed to concatenate_searches
ConcatTexts ==
    { <<>>, <<SPACE>>, <<"a">>, <<"d", "e", "c", "k", ":", "a">>, <<MINUS, "a">>,
      <<"a", " ", "o", "r", " ", "1">>, <<LPAREN>>, <<QUOTE>> }

\* the separator codes: the two of the enum, and codes outside it
Seps == {0, 1, 2, 0 - 1, 2147483647, (0 - 2147483647) - 1}

FieldFrags == {<<"a">>, <<COLON>>, <<QUOTE>>, <<"r", "e", ":">>}

FieldTexts == {Flatten(fs) : fs \in SeqsUpTo(FieldFrags, MaxFieldFrags)}

FieldNames == {Flatten(fs) : fs \in SeqsUpTo(FieldFrags, MaxFieldNameFrags)}

StateKinds ==
    {"New", "Review", "Learning", "Due", "Buried", "UserBuried", "SchedBuried", "Suspended"}

\* the leaves handed to write_search_node
Leaves ==
    {SingleField(f, t, r) : f \in FieldNames, t \in FieldTexts, r \in BOOLEAN}
    \cup {State(k) : k \in StateKinds}
    \cup {Rated(d, e) : d \in {0, 12}, e \in {None, Some(3)}}
    \cup {Duplicates(m, t) : m \in {0 - 5, 1234}, t \in {<<"a", QUOTE>>}}
    \cup {Property(<<">", "=">>, [kind |-> k, v |-> 10]) :
              k \in {"Due", "Interval", "Reps", "Lapses"}}
    \cup {Property(<<"<">>, [kind |-> "Due", v |-> 0 - 3]),
          Property(<<"=">>, [kind |-> "Ease", v |-> [whole |-> 2, tenths |-> 5]]),
          Property(<<"=">>, [kind |-> "Ease", v |-> [whole |-> 2, tenths |-> 0]])}

NoLeaf == [kind |-> "none"]

(***************************************************************************)
(* The calls.  A state holds one call: its arguments, how far it got, and  *)
(* what it returned.                                                       *)
(***************************************************************************)
Idle ==
    /\ pc = "start" /\ out = NoResult /\ out2 = NoResult /\ norm = NoResult
    /\ parsed = 0 /\ kept = <<>>

InitNormalize ==
    /\ fn = "normalize" /\ input \in Texts
    /\ sep = 0 /\ searches = <<>> /\ leaf = NoLeaf /\ Idle

InitNegate ==
    /\ fn = "negate" /\ input \in NegateTexts
    /\ sep = 0 /\ searches = <<>> /\ leaf = NoLeaf /\ Idle

InitConcat ==
    /\ fn = "concatenate" /\ input = <<>>
    /\ sep \in Seps /\ searches \in SeqsUpTo(ConcatTexts, MaxSearches)
    /\ leaf = NoLeaf /\ Idle

InitWrite ==
    /\ fn = "write" /\ input = <<>>
    /\ sep = 0 /\ searches = <<>> /\ leaf \in Leaves /\ Idle

Init == InitNormalize \/ InitNegate \/ InitConcat \/ InitWrite

\* normalize_search(input)
NormalizeSearch ==
    /\ fn = "normalize" /\ pc = "start"
    /\ out' = normalize_search(input)
    /\ pc' = "returned"
    /\ UNCHANGED <<fn, input, sep, searches, leaf, out2, norm, parsed, kept>>

\* the caller normalizes the text it got back
NormalizeAgain ==
    /\ fn = "normalize" /\ pc = "returned" /\ out.ok
    /\ out2' = normalize_search(out.val)
    /\ pc' = "done"
    /\ UNCHANGED <<fn, input, sep, searches, leaf, out, norm, parsed, kept>>

\* negate_search(input)
NegateSearch ==
    /\ fn = "negate" /\ pc = "start"
    /\ out' = negate_search(input)
    /\ pc' = "returned"
    /\ UNCHANGED <<fn, input, sep, searches, leaf, out2, norm, parsed, kept>>

\* the caller negates the text it got back
NegateAgain ==
    /\ fn = "negate" /\ pc = "returned" /\ out.ok
    /\ out2' = negate_search(out.val)
    /\ pc' = "again"
    /\ UNCHANGED <<fn, input, sep, searches, leaf, out, norm, parsed, kept>>

\* the caller normalizes the text it negated twice
NormalizeInput ==
    /\ fn = "negate" /\ pc = "again"
    /\ norm' = normalize_search(input)
    /\ pc' = "done"
    /\ UNCHANGED <<fn, input, sep, searches, leaf, out, out2, parsed, kept>>

\* concatenate_searches(sep, searches)
ConcatenateSearches ==
    /\ fn = "concatenate" /\ pc = "start"
    /\ LET run == concatenate_searches_run(sep, searches)
       IN  /\ out' = run.ret
           /\ parsed' = run.calls
           /\ kept' = run.kept
    /\ pc' = "done"
    /\ UNCHANGED <<fn, input, sep, searches, leaf, out2, norm>>

\* write_search_node(leaf)
WriteSearchNode ==
    /\ fn = "write" /\ pc = "start"
    /\ out' = RetOk(write_search_node(leaf))
    /\ pc' = "done"
    /\ UNCHANGED <<fn, input, sep, searches, leaf, out2, norm, parsed, kept>>

NextNormalize == NormalizeSearch \/ NormalizeAgain
NextNegate == NegateSearch \/ NegateAgain \/ NormalizeInput
NextConcat == ConcatenateSearches
NextWrite == WriteSearchNode

Next ==
    \/ NormalizeSearch
    \/ NormalizeAgain
    \/ NegateSearch
    \/ NegateAgain
    \/ NormalizeInput
    \/ ConcatenateSearches
    \/ WriteSearchNode

Spec == Init /\ [][Next]_vars
SpecNormalize == InitNormalize /\ [][NextNormalize]_vars
SpecNegate == InitNegate /\ [][NextNegate]_vars
SpecConcat == InitConcat /\ [][NextConcat]_vars
SpecWrite == InitWrite /\ [][NextWrite]_vars
\* the two entry points that can panic
InitCalls == InitNegate \/ InitConcat
NextCalls == NegateSearch \/ NegateAgain \/ NormalizeInput \/ ConcatenateSearches
SpecCalls == InitCalls /\ [][NextCalls]_vars

(***************************************************************************)
(* What the claims speak of                                                *)
(***************************************************************************)
\* the parse of the input of normalize_search or negate_search
InputParse == parse(input)

\* the parse of each text handed to concatenate_searches
ParsedAll == [i \in 1..Len(searches) |-> parse(searches[i])]
AllParse == \A i \in 1..Len(searches) : ParsedAll[i].ok
Failing == {i \in 1..Len(searches) : ~ParsedAll[i].ok}
FirstFailing == CHOOSE i \in Failing : \A j \in Failing : i <= j

NotWholeCollection(v) == v # <<Search(WholeCollection)>>

\* the parsed expressions that are not the whole collection, in input order
Survivors == SelectSeq([i \in 1..Len(searches) |-> ParsedAll[i].nodes], NotWholeCollection)

\* strs[1] marker strs[2] marker ... strs[n]
JoinWith(strs, marker) ==
    Flatten([i \in 1..Len(strs) |-> IF i = 1 THEN strs[i] ELSE marker \o strs[i]])

\* s with a backslash put before every c
EscapeEvery(s, c) ==
    Flatten([i \in 1..Len(s) |-> IF s[i] = c THEN <<BSLASH, c>> ELSE <<s[i]>>])

AND_MARKER == <<" ", "A", "N", "D", " ">>
OR_MARKER == <<" ", "O", "R", " ">>

\* C1: normalizing the text normalize_search returned gives that text again.
C1_NormalizeIdempotent == (fn = "normalize" /\ pc = "done") => out2 = out

\* C2: for an input that parses to a single predicate other than the whole
\* collection, negating twice gives what normalizing gives.
C2_DoubleNegation ==
    (fn = "negate" /\ pc = "done" /\ InputParse.ok /\ Len(InputParse.nodes) = 1
         /\ InputParse.nodes # <<Search(WholeCollection)>>)
        => out2 = norm

\* C3: negate_search of an input that parses to the whole collection alone
\* returns the empty string, with no '-'.
C3_NegateWholeCollection ==
    (fn = "negate" /\ pc # "start" /\ InputParse.ok
         /\ InputParse.nodes = <<Search(WholeCollection)>>)
        => out = RetOk(<<>>)

C3_Witness ==
    /\ fn = "negate" /\ pc = "returned" /\ input = <<SPACE, SPACE>>
    /\ InputParse.nodes = <<Search(WholeCollection)>> /\ out.ok /\ out.val = <<>>

\* C4: the filter of concatenate_searches drops a parsed expression if and
\* only if it is exactly the one-element sequence of the whole collection.
C4_FilterExactlyWholeCollection ==
    (fn = "concatenate" /\ pc = "done" /\ AllParse) => kept = Survivors

C4_Witness ==
    /\ fn = "concatenate" /\ pc = "done" /\ AllParse /\ Len(searches) = 3
    /\ ParsedAll[1].nodes = <<Search(WholeCollection)>>
    /\ Len(ParsedAll[2].nodes) = 3
    /\ ParsedAll[3].nodes = <<Search(WholeCollection)>>
    /\ kept = <<ParsedAll[2].nodes>>

\* C5: when every text parses, the result is the renderings of the surviving
\* expressions in input order with the separator marker between each
\* consecutive pair: none before the first, none after the last, no grouping.
C5_MarkerBetweenSurvivors ==
    (fn = "concatenate" /\ pc = "done" /\ AllParse)
        => out = RetOk(JoinWith([i \in 1..Len(Survivors) |-> write_nodes(Survivors[i])],
                                write_nodes(bool_node(sep))))

C5_Witness ==
    /\ fn = "concatenate" /\ pc = "done" /\ AllParse /\ Len(Survivors) = 3
    /\ Survivors[1] # Survivors[2] /\ Survivors[2] # Survivors[3]
    /\ out.ok
    /\ out.val = write_nodes(Survivors[1]) \o OR_MARKER \o write_nodes(Survivors[2])
                     \o OR_MARKER \o write_nodes(Survivors[3])

\* C6: concatenate_searches returns an error exactly when some text fails to
\* parse: the error of the first failing text, with no text after it parsed
\* and nothing concatenated.
C6_FirstParseError ==
    (fn = "concatenate" /\ pc = "done")
        => IF Failing = {}
           THEN out.ok /\ parsed = Len(searches)
           ELSE /\ out = RetErr(ParsedAll[FirstFailing].err)
                /\ parsed = FirstFailing
                /\ kept = <<>>

C6_Witness ==
    /\ fn = "concatenate" /\ pc = "done" /\ Len(searches) = 3
    /\ ParsedAll[1].nodes = <<Search(WholeCollection)>>
    /\ ~ParsedAll[2].ok /\ ~ParsedAll[3].ok /\ ParsedAll[2].err # ParsedAll[3].err
    /\ out = RetErr(ParsedAll[2].err) /\ parsed = 2

\* C7: the separator code selects Or only when it is the OR code; every other
\* code selects And, and no code makes the call fail.
C7_SeparatorDefaultsToAnd ==
    (fn = "concatenate" /\ pc = "done" /\ AllParse)
        => /\ out.ok
           /\ (Len(kept) >= 2 =>
                  out.val = JoinWith([i \in 1..Len(kept) |-> write_nodes(kept[i])],
                                     IF sep = SeparatorOr THEN OR_MARKER ELSE AND_MARKER))

C7_Witness ==
    /\ fn = "concatenate" /\ pc = "done" /\ sep = 2147483647 /\ Len(kept) = 2
    /\ out.ok /\ out.val = write_nodes(kept[1]) \o AND_MARKER \o write_nodes(kept[2])

\* C8: for a parse other than the whole collection alone, negate_search
\* returns the rendering of inner for the single element Not(inner), '-' and
\* the node's rendering for any other single Group or Search, and
\* '-(' rendering of the sequence ')' for more than one element.
C8_NegateShapes ==
    (fn = "negate" /\ pc # "start" /\ InputParse.ok
         /\ InputParse.nodes # <<Search(WholeCollection)>>)
        => LET ns == InputParse.nodes
           IN  /\ (Len(ns) = 1 /\ ns[1].type = "Not")
                      => out = RetOk(write_node(ns[1].node))
               /\ (Len(ns) = 1 /\ ns[1].type \in {"Group", "Search"})
                      => out = RetOk(<<MINUS>> \o write_node(ns[1]))
               /\ (Len(ns) > 1)
                      => out = RetOk(<<MINUS, LPAREN>> \o write_nodes(ns) \o <<RPAREN>>)

C8_Witness ==
    /\ fn = "negate" /\ pc = "returned" /\ InputParse.ok
    /\ Len(InputParse.nodes) = 3 /\ InputParse.nodes[1].type = "Not"
    /\ InputParse.nodes[2] = Or
    /\ out.ok /\ SubSeq(out.val, 1, 3) = <<MINUS, LPAREN, MINUS>>
    /\ out.val[Len(out.val)] = RPAREN

\* C9: a SingleField leaf renders as the field name with every colon escaped,
\* a colon, then re: and the text as it is when is_re, the text with only its
\* first colon escaped when it starts with re: and is_re is false, and the
\* text with no colon escaped otherwise; the token is quoted once.
C9_SingleFieldEscaping ==
    (fn = "write" /\ pc = "done" /\ leaf.kind = "SingleField")
        => LET body == IF leaf.is_re THEN <<"r", "e", ":">> \o leaf.text
                       ELSE IF starts_with(leaf.text, <<"r", "e", ":">>)
                            THEN <<"r", "e", BSLASH, COLON>>
                                     \o SubSeq(leaf.text, 4, Len(leaf.text))
                            ELSE leaf.text
               token == EscapeEvery(leaf.field, COLON) \o <<COLON>> \o body
           IN  out = RetOk(<<QUOTE>> \o EscapeEvery(token, QUOTE) \o <<QUOTE>>)

C9_Witness ==
    /\ fn = "write" /\ pc = "done" /\ leaf.kind = "SingleField" /\ ~leaf.is_re
    /\ leaf.field = <<"a", COLON>>
    /\ leaf.text = <<"r", "e", ":", "a", COLON>>
    /\ out.val = <<QUOTE, "a", BSLASH, COLON, COLON,
                   "r", "e", BSLASH, COLON, "a", COLON, QUOTE>>

\* C10: on an input that parses, neither negate_search nor
\* concatenate_searches panics: no parsed sequence is empty where the filter
\* reads its first element, and the unreachable arm of negate_search is not
\* reached.
C10_NoPanic ==
    /\ ~out.panicked /\ ~out2.panicked /\ ~norm.panicked
    /\ (fn = "negate" /\ pc # "start" /\ InputParse.ok)
           => (out.ok /\ InputParse.nodes # <<>>
                  /\ (Len(InputParse.nodes) = 1 => ~is_op(InputParse.nodes[1])))
    /\ (fn = "concatenate" /\ pc = "done" /\ AllParse)
           => (out.ok /\ \A i \in 1..Len(searches) : ParsedAll[i].nodes # <<>>)

C10_Witness ==
    /\ fn = "negate" /\ pc = "returned" /\ InputParse.ok
    /\ Len(InputParse.nodes) = 1 /\ InputParse.nodes[1].type = "Group"
    /\ out.ok /\ out.val[1] = MINUS /\ out.val[2] = LPAREN

====
